---- MODULE Spec2Model ----
(***************************************************************************)
(* A model of src/extensions/fetch-url.ts: the HTTP fetcher fetchContent   *)
(* with its manual redirect following, the row parser parseRsc, the        *)
(* challenge test isChallenge, and the fallback orchestration of the       *)
(* fetch_url tool's execute.                                               *)
(*                                                                         *)
(* Text is modelled by TLA+ strings, read one UTF-16 code unit at a time   *)
(* with SubSeq; the library functions the code calls on text (split, trim, *)
(* toLowerCase, includes, startsWith, the two regular expressions and      *)
(* JSON.parse) are operators that compute what the library computes.       *)
(***************************************************************************)
EXTENDS Integers, Sequences, FiniteSets, TLC

(***************************************************************************)
(* Strings                                                                 *)
(***************************************************************************)

\* s.charAt(i - 1): the i-th code unit of s as a one-unit string, "" outside s.
Ch(s, i) == IF i >= 1 /\ i <= Len(s) THEN SubSeq(s, i, i) ELSE ""

\* s.startsWith(p, i - 1)
StartsWithAt(s, i, p) == i + Len(p) - 1 <= Len(s) /\ SubSeq(s, i, i + Len(p) - 1) = p

\* s.startsWith(p)
StartsWith(s, p) == StartsWithAt(s, 1, p)

\* s.includes(sub)
Includes(s, sub) ==
    \E i \in 1..(Len(s) - Len(sub) + 1) : SubSeq(s, i, i + Len(sub) - 1) = sub

\* s.indexOf(c, i - 1) + 1 for a one-unit string c: the least index from i
\* on that holds c, 0 when there is none.
IndexOf(s, c, i) ==
    IF \A k \in i..Len(s) : Ch(s, k) # c THEN 0
    ELSE CHOOSE j \in i..Len(s) :
            Ch(s, j) = c /\ \A k \in i..(j - 1) : Ch(s, k) # c

\* The least index from i on whose code unit is not in S; the end of s
\* counts as such a unit.
FirstNotIn(s, i, S) ==
    IF i > Len(s) THEN i
    ELSE CHOOSE j \in i..(Len(s) + 1) :
            Ch(s, j) \notin S /\ \A k \in i..(j - 1) : Ch(s, k) \in S

\* The greatest index whose code unit is not in S, 0 when there is none.
LastNotIn(s, S) ==
    IF \A k \in 1..Len(s) : Ch(s, k) \in S THEN 0
    ELSE CHOOSE j \in 1..Len(s) :
            Ch(s, j) \notin S /\ \A k \in (j + 1)..Len(s) : Ch(s, k) \in S

UpperLetters == "ABCDEFGHIJKLMNOPQRSTUVWXYZ"
LowerLetters == "abcdefghijklmnopqrstuvwxyz"

\* The lower-case form of one code unit (ASCII letters; every other unit of
\* the model's alphabet is its own lower-case form).
LowerCh(c) ==
    IF IndexOf(UpperLetters, c, 1) # 0 /\ c # ""
    THEN Ch(LowerLetters, IndexOf(UpperLetters, c, 1))
    ELSE c

RECURSIVE toLowerCase(_)
\* s.toLowerCase(), unit by unit: the two halves of s, each in lower case.
toLowerCase(s) ==
    IF Len(s) <= 1 THEN LowerCh(s)
    ELSE toLowerCase(SubSeq(s, 1, Len(s) \div 2))
             \o toLowerCase(SubSeq(s, (Len(s) \div 2) + 1, Len(s)))

\* The white space String.prototype.trim removes and JSON.parse skips.
TrimSpace == {" ", "\t", "\n", "\r", "\f"}
JsonSpace == {" ", "\t", "\n", "\r"}
\* The line terminators "." does not match in a regular expression.
LineTerminators == {"\n", "\r"}
Digits == {"0", "1", "2", "3", "4", "5", "6", "7", "8", "9"}

\* s.trim()
trim(s) ==
    IF LastNotIn(s, TrimSpace) = 0 THEN ""
    ELSE SubSeq(s, FirstNotIn(s, 1, TrimSpace), LastNotIn(s, TrimSpace))

RECURSIVE SplitFrom(_, _)
\* The pieces of s from index `from` on.
SplitFrom(s, from) ==
    IF IndexOf(s, "\n", from) = 0 THEN <<SubSeq(s, from, Len(s))>>
    ELSE <<SubSeq(s, from, IndexOf(s, "\n", from) - 1)>>
             \o SplitFrom(s, IndexOf(s, "\n", from) + 1)

\* data.split('\n')
split(s) == SplitFrom(s, 1)

RECURSIVE join(_, _)
\* parts.join(sep)
join(parts, sep) ==
    IF parts = <<>> THEN ""
    ELSE IF Len(parts) = 1 THEN parts[1]
    ELSE parts[1] \o sep \o join(Tail(parts), sep)

(***************************************************************************)
(* JSON.parse, as far as parseRsc reads its result: whether the text is    *)
(* valid JSON, the kind of the value, the decoded text of a string, and    *)
(* for an array the kind and decoded text of each top-level element.       *)
(***************************************************************************)

JsonFail == [ok |-> FALSE, pos |-> 0, kind |-> "none", str |-> "", items |-> <<>>]

JsonVal(pos, kind, str, items) ==
    [ok |-> TRUE, pos |-> pos, kind |-> kind, str |-> str, items |-> items]

\* The first index from i on that holds no JSON white space.
SkipWs(s, i) == FirstNotIn(s, i, JsonSpace)

\* The first index from i on that holds no decimal digit.
DigitsEnd(s, i) == FirstNotIn(s, i, Digits)

HexDigits == "0123456789abcdef"

IsHex(c) == c # "" /\ IndexOf(HexDigits, LowerCh(c), 1) # 0

HexVal(c) == IndexOf(HexDigits, LowerCh(c), 1) - 1

\* The code units U+0020 .. U+005F and U+0061 .. U+007E in order.
AsciiLow == " !\"#$%&'()*+,-./0123456789:;<=>?@ABCDEFGHIJKLMNOPQRSTUVWXYZ[\\]^_"
AsciiHigh == "abcdefghijklmnopqrstuvwxyz{|}~"

\* The code unit with the given code. A unit a TLA+ string cannot hold is
\* written "?": it is one unit long and equals none of "$", "@", "[".
CodeUnit(code) ==
    CASE code >= 32 /\ code <= 95 -> Ch(AsciiLow, code - 31)
      [] code >= 97 /\ code <= 126 -> Ch(AsciiHigh, code - 96)
      [] code = 9 -> "\t"
      [] code = 10 -> "\n"
      [] code = 12 -> "\f"
      [] code = 13 -> "\r"
      [] OTHER -> "?"

\* What the escape \c stands for ("" when \c is no JSON escape; \b, which a
\* TLA+ string cannot hold, is written "?").
EscapeOf(c) ==
    CASE c = "\"" -> "\""
      [] c = "\\" -> "\\"
      [] c = "/" -> "/"
      [] c = "b" -> "?"
      [] c = "f" -> "\f"
      [] c = "n" -> "\n"
      [] c = "r" -> "\r"
      [] c = "t" -> "\t"
      [] OTHER -> ""

\* White space and control characters may not appear raw in a JSON string.
JsonControl == {"\t", "\n", "\r", "\f"}

\* The number of consecutive backslashes that end just before index j,
\* counted no further back than index i.
BackslashRun(s, i, j) ==
    (j - 1) - (CHOOSE k \in (i - 1)..(j - 1) :
                  /\ k = i - 1 \/ Ch(s, k) # "\\"
                  /\ \A m \in (k + 1)..(j - 1) : Ch(s, m) = "\\")

\* In a quoted text whose body starts at index i: the unit at index j
\* follows a backslash that escapes it; the unit at index j is a backslash
\* that escapes the next.
Escaped(s, i, j) == BackslashRun(s, i, j) % 2 = 1
Escaping(s, i, j) == Ch(s, j) = "\\" /\ ~Escaped(s, i, j)

\* The index of the quote that closes the quoted text whose body starts at
\* index i: the first quote that no backslash escapes, 0 when there is none.
ClosingQuote(s, i) ==
    IF \A j \in i..Len(s) : Ch(s, j) # "\"" \/ Escaped(s, i, j) THEN 0
    ELSE CHOOSE j \in i..Len(s) :
            /\ Ch(s, j) = "\"" /\ ~Escaped(s, i, j)
            /\ \A k \in i..(j - 1) : Ch(s, k) # "\"" \/ Escaped(s, i, k)

\* The unit at index p is one of the four digits of a \u escape.
InUnicodeEscape(s, i, p) ==
    \E k \in 2..5 : p - k >= i /\ Escaping(s, i, p - k) /\ Ch(s, (p - k) + 1) = "u"

\* Whether a JSON string literal may hold what it holds at index p: an
\* escape JSON knows, or a unit that is no control character.
UnitOk(s, i, p) ==
    IF Escaping(s, i, p)
    THEN IF Ch(s, p + 1) = "u" THEN \A k \in 2..5 : IsHex(Ch(s, p + k))
         ELSE EscapeOf(Ch(s, p + 1)) # ""
    ELSE Ch(s, p) \notin JsonControl

\* What the unit at index p of a JSON string literal adds to the string.
DecodedUnit(s, i, p) ==
    IF Escaping(s, i, p)
    THEN IF Ch(s, p + 1) = "u"
         THEN CodeUnit(HexVal(Ch(s, p + 2)) * 4096 + HexVal(Ch(s, p + 3)) * 256
                       + HexVal(Ch(s, p + 4)) * 16 + HexVal(Ch(s, p + 5)))
         ELSE EscapeOf(Ch(s, p + 1))
    ELSE IF Escaped(s, i, p) \/ InUnicodeEscape(s, i, p) THEN ""
    ELSE Ch(s, p)

RECURSIVE DecodeRange(_, _, _, _)
\* The string the units lo..hi of a literal stand for: that of the first
\* half of them, then that of the second.
DecodeRange(s, i, lo, hi) ==
    IF lo > hi THEN ""
    ELSE IF lo = hi THEN DecodedUnit(s, i, lo)
    ELSE DecodeRange(s, i, lo, (lo + hi) \div 2)
             \o DecodeRange(s, i, ((lo + hi) \div 2) + 1, hi)

\* The JSON string literal whose body is i..e-1 (e = 0: it is not closed).
StringAt(s, i, e) ==
    IF e = 0 \/ \E p \in i..(e - 1) : ~UnitOk(s, i, p) THEN JsonFail
    ELSE JsonVal(e + 1, "string", DecodeRange(s, i, i, e - 1), <<>>)

\* The JSON string literal whose body starts at index i.
ParseString(s, i) == StringAt(s, i, ClosingQuote(s, i))

\* The parts of a JSON number, each from where the one before ended (0: no
\* number): the integer part, the fraction if any, the exponent if any.
IntEnd(s, a) ==
    IF Ch(s, a) = "0" THEN a + 1
    ELSE IF Ch(s, a) \in Digits THEN DigitsEnd(s, a) ELSE 0

FracEnd(s, b) ==
    IF b = 0 THEN 0
    ELSE IF Ch(s, b) # "." THEN b
    ELSE IF Ch(s, b + 1) \in Digits THEN DigitsEnd(s, b + 1) ELSE 0

ExpDigitsEnd(s, x) == IF Ch(s, x) \in Digits THEN DigitsEnd(s, x) ELSE 0

ExpEnd(s, f) ==
    IF f = 0 THEN 0
    ELSE IF Ch(s, f) \notin {"e", "E"} THEN f
    ELSE ExpDigitsEnd(s, IF Ch(s, f + 1) \in {"+", "-"} THEN f + 2 ELSE f + 1)

\* The index after the JSON number that starts at i, 0 when there is none.
NumberEnd(s, i) ==
    ExpEnd(s, FracEnd(s, IntEnd(s, IF Ch(s, i) = "-" THEN i + 1 ELSE i)))

NumberAt(e) == IF e = 0 THEN JsonFail ELSE JsonVal(e, "number", "", <<>>)

RECURSIVE ParseValue(_, _)
RECURSIVE ParseElems(_, _, _)
RECURSIVE ParseMembers(_, _)

\* After the elements acc of an array, at index k: a comma and the next
\* element, or the end of the array.
ElemSep(s, k, acc) ==
    IF Ch(s, k) = "," THEN ParseElems(s, SkipWs(s, k + 1), acc)
    ELSE IF Ch(s, k) = "]" THEN JsonVal(k + 1, "array", "", acc)
    ELSE JsonFail

\* The element v read after the elements acc.
AfterElem(s, v, acc) ==
    IF ~v.ok THEN JsonFail
    ELSE ElemSep(s, SkipWs(s, v.pos), Append(acc, [kind |-> v.kind, str |-> v.str]))

\* The elements of an array from index j on, acc being the elements read.
ParseElems(s, j, acc) == AfterElem(s, ParseValue(s, j), acc)

\* After a member of an object, at index k.
MemberSep(s, k) ==
    IF Ch(s, k) = "," THEN ParseMembers(s, SkipWs(s, k + 1))
    ELSE IF Ch(s, k) = "}" THEN JsonVal(k + 1, "object", "", <<>>)
    ELSE JsonFail

AfterMember(s, v) == IF ~v.ok THEN JsonFail ELSE MemberSep(s, SkipWs(s, v.pos))

AfterColon(s, c) ==
    IF Ch(s, c) # ":" THEN JsonFail
    ELSE AfterMember(s, ParseValue(s, SkipWs(s, c + 1)))

AfterKey(s, key) == IF ~key.ok THEN JsonFail ELSE AfterColon(s, SkipWs(s, key.pos))

\* The members of an object from index j on.
ParseMembers(s, j) ==
    IF Ch(s, j) # "\"" THEN JsonFail ELSE AfterKey(s, ParseString(s, j + 1))

\* The array or object whose bracket is before index j.
Bracketed(s, j, close, kind) ==
    IF Ch(s, j) = close THEN JsonVal(j + 1, kind, "", <<>>)
    ELSE IF kind = "array" THEN ParseElems(s, j, <<>>)
    ELSE ParseMembers(s, j)

\* The JSON value that starts at index i.
ParseValue(s, i) ==
    CASE Ch(s, i) = "\"" -> ParseString(s, i + 1)
      [] Ch(s, i) = "[" -> Bracketed(s, SkipWs(s, i + 1), "]", "array")
      [] Ch(s, i) = "{" -> Bracketed(s, SkipWs(s, i + 1), "}", "object")
      [] Ch(s, i) = "-" \/ Ch(s, i) \in Digits -> NumberAt(NumberEnd(s, i))
      [] StartsWithAt(s, i, "true") -> JsonVal(i + 4, "boolean", "", <<>>)
      [] StartsWithAt(s, i, "false") -> JsonVal(i + 5, "boolean", "", <<>>)
      [] StartsWithAt(s, i, "null") -> JsonVal(i + 4, "null", "", <<>>)
      [] OTHER -> JsonFail

\* A value v read from the start of text is the whole of it.
WholeText(text, v) ==
    IF v.ok /\ SkipWs(text, v.pos) = Len(text) + 1 THEN v ELSE JsonFail

\* JSON.parse(text): ok is FALSE where JSON.parse throws.
JsonParse(text) == WholeText(text, ParseValue(text, SkipWs(text, 1)))

(***************************************************************************)
(* parseRsc                                                                *)
(***************************************************************************)

\* The length a string must exceed to be kept.
MinStringLength == 20

\* The match of /^(\d+):(.+)$/ on a text whose digits end before index d.
rowMatchAt(trimmed, d) ==
    IF /\ d > 1
       /\ Ch(trimmed, d) = ":"
       /\ d < Len(trimmed)
       /\ \A k \in (d + 1)..Len(trimmed) : Ch(trimmed, k) \notin LineTerminators
    THEN [matched |-> TRUE, payload |-> SubSeq(trimmed, d + 1, Len(trimmed))]
    ELSE [matched |-> FALSE, payload |-> ""]

\* trimmed.match(/^(\d+):(.+)$/): matched is FALSE for null, payload is the
\* second group. "." matches no line terminator and "$" only the end.
rowMatch(trimmed) == rowMatchAt(trimmed, DigitsEnd(trimmed, 1))

\* The match of /"((?:[^"\\]|\\.)*)"/ whose body starts at index j and whose
\* closing quote would be at index e: "." matches no line terminator.
quotedEndAt(s, j, e) ==
    IF e = 0 THEN 0
    ELSE IF \E p \in j..(e - 1) :
                Escaping(s, j, p) /\ Ch(s, p + 1) \in LineTerminators
    THEN 0
    ELSE e

\* Where the match of /"((?:[^"\\]|\\.)*)"/ whose body starts at index j
\* ends: the index of its closing quote, 0 when there is no match.
QuotedEnd(s, j) == quotedEndAt(s, j, ClosingQuote(s, j))

RECURSIVE stringMatchesFrom(_, _)

\* The matches from the quote at index q on, e being where the match that
\* opens at q ends (0: none opens there).
matchesAt(s, q, e) ==
    IF e = 0 THEN stringMatchesFrom(s, q + 1)
    ELSE <<SubSeq(s, q, e)>> \o stringMatchesFrom(s, e + 1)

\* The matches from the next quote on, which is at index q (0: no quote).
matchesFromQuote(s, q) ==
    IF q = 0 THEN <<>> ELSE matchesAt(s, q, QuotedEnd(s, q + 1))

\* The matches of the global expression from index i on, left to right,
\* each search resuming after the previous match.
stringMatchesFrom(s, i) == matchesFromQuote(s, IndexOf(s, "\"", i))

\* payload.match(/"((?:[^"\\]|\\.)*)"/g), the empty sequence for null.
stringMatches(payload) == stringMatchesFrom(payload, 1)

\* Lines 85-89: what a parsed string contributes.
keepParsedString(parsed) ==
    IF ~StartsWith(parsed.str, "$") /\ ~StartsWith(parsed.str, "@")
    THEN <<parsed.str>>
    ELSE <<>>

\* keepItem with the sentinels of the string case only.
keepItemLikeString(item) ==
    /\ item.kind = "string"
    /\ Len(item.str) > MinStringLength
    /\ ~StartsWith(item.str, "$")
    /\ ~StartsWith(item.str, "@")

\* Lines 95-99: whether an element of a parsed array is kept.
keepItem(item) ==
    /\ item.kind = "string"
    /\ Len(item.str) > MinStringLength
    /\ ~StartsWith(item.str, "$")
    /\ ~StartsWith(item.str, "@")
    /\ ~StartsWith(item.str, "[")

\* keepContent with the sentinels of the array case.
keepContentLikeItem(content) ==
    IF content.ok /\ keepItem(content) THEN <<content.str>> ELSE <<>>

\* Lines 108-115: what the match parsed as content contributes.
keepContent(content) ==
    IF /\ content.ok
       /\ content.kind = "string"
       /\ Len(content.str) > MinStringLength
       /\ ~StartsWith(content.str, "$")
       /\ ~StartsWith(content.str, "@")
    THEN <<content.str>>
    ELSE <<>>

\* Lines 106-116: what one match of the fallback scan contributes.
keepMatch(match) == keepContent(JsonParse(match))

RECURSIVE keepItems(_)
\* Lines 94-100: the loop over the elements of a parsed array.
keepItems(items) ==
    IF items = <<>> THEN <<>>
    ELSE (IF keepItem(items[1]) THEN <<items[1].str>> ELSE <<>>) \o keepItems(Tail(items))

RECURSIVE keepMatches(_)
\* Lines 105-118: the loop over the matches of the fallback scan.
keepMatches(matches) ==
    IF matches = <<>> THEN <<>>
    ELSE keepMatch(matches[1]) \o keepMatches(Tail(matches))

\* Lines 83-119: what a payload contributes, parsed being JSON.parse of it.
extractParsed(payload, parsed) ==
    IF ~parsed.ok THEN keepMatches(stringMatches(payload))
    ELSE IF parsed.kind = "string" /\ Len(parsed.str) > MinStringLength
         THEN keepParsedString(parsed)
    ELSE IF parsed.kind = "array" THEN keepItems(parsed.items)
    ELSE <<>>

\* Lines 80-119: what the payload of a row contributes.
extractPayload(payload) == extractParsed(payload, JsonParse(payload))

\* Lines 76-79: what a trimmed line contributes, m being its match.
extractRow(m) == IF ~m.matched THEN <<>> ELSE extractPayload(m.payload)

\* Lines 72-79: what a trimmed line contributes.
extractTrimmed(trimmed) ==
    IF trimmed = "" \/ StartsWith(trimmed, "#") THEN <<>>
    ELSE extractRow(rowMatch(trimmed))

\* Lines 70-119: what one line contributes.
extractLine(line) == extractTrimmed(trim(line))

RECURSIVE extractLines(_)
\* Lines 69-120: the loop over the lines.
extractLines(lines) ==
    IF lines = <<>> THEN <<>>
    ELSE extractLine(lines[1]) \o extractLines(Tail(lines))

\* The array `extracted` when parseRsc returns.
extracted(data) == extractLines(split(data))

\* parseRsc(data)
parseRsc(data) == join(extracted(data), "\n\n")

(***************************************************************************)
(* fetchContent: the promise of each call and its transport request        *)
(***************************************************************************)

\* maxRedirects when the caller passes none.
DefaultMaxRedirects == 5

\* What `new URL` and `client.get` make of a URL text: "malformed" when
\* `new URL` throws, "unsupported" when the URL parses but client.get throws
\* on its protocol, "valid" otherwise.
UrlKind(url) ==
    CASE url = "http://[" -> "malformed"
      [] url = "ftp://example.com/" -> "unsupported"
      [] OTHER -> "valid"

\* The URLs fetch_url is invoked with.
TargetUrls ==
    {"https://example.com/page", "https://example.com/moved", "http://[",
     "ftp://example.com/"}

\* The URL whose servers, and the proxy asked for it, answer with long
\* chains of redirects.
MovedUrl == "https://example.com/moved"

\* The Location header values a server sends.
Locations == {"", "/next", "ftp://example.com/", "http://["}

NoResponse ==
    [hasStatus |-> FALSE, statusCode |-> 0, hasContentType |-> FALSE,
     contentType |-> "", body |-> ""]

\* A settlement of a top-level promise: how is "pending", "fulfilled" (with
\* data, contentType, statusCode) or "rejected" (with the error's message).
Pending ==
    [how |-> "pending", data |-> "", contentType |-> "", statusCode |-> 0,
     message |-> ""]

Fulfilled(data, contentType, statusCode) ==
    [how |-> "fulfilled", data |-> data, contentType |-> contentType,
     statusCode |-> statusCode, message |-> ""]

Rejected(message) ==
    [how |-> "rejected", data |-> "", contentType |-> "", statusCode |-> 0,
     message |-> message]

\* A call of fetchContent: which fetch of the invocation it serves ("local"
\* or "proxy"), the call whose redirect made it (0 for the orchestrator's
\* call), its maxRedirects, its promise ("pending", "fulfilled", "rejected"),
\* its request ("none": client.get was not reached; "open": issued, no
\* response yet; "redirected": the response was taken as a redirect and is
\* never read; "reading": the data and end listeners are attached; "ended";
\* "destroyed": req.destroy() of line 56), whether the request has emitted
\* 'error', and the response being read.
NewCall(fetch, parent, maxRedirects, promise, req) ==
    [fetch |-> fetch, parent |-> parent, maxRedirects |-> maxRedirects,
     promise |-> promise, req |-> req, errored |-> FALSE, res |-> NoResponse]

\* The state of the program: calls are the fetchContent calls made so far,
\* tops the settlements of the two promises execute awaits.
EmptyTops == [local |-> Pending, proxy |-> Pending]

RECURSIVE settle(_, _, _)
\* resolve or reject of call i with settlement v (lines 20, 38-39, 46, 54,
\* 57): nothing when the promise is settled already; else the promise takes
\* v, and the then/catch of line 38-39 hands v to the calling hop.
settle(st, i, v) ==
    IF st.calls[i].promise # "pending" THEN st
    ELSE LET c == st.calls[i]
             st1 == [st EXCEPT !.calls[i].promise = v.how]
         IN  IF c.parent = 0
             THEN [st1 EXCEPT !.tops[c.fetch] = v]
             ELSE settle(st1, c.parent, v)

\* fetchContent failing closed one hop early: the test of line 19 written
\* as maxRedirects <= 0.
fetchContentEarly(st, fetch, parent, url, maxRedirects, aborted) ==
    LET i == Len(st.calls) + 1
        add(req) ==
            [st EXCEPT !.calls = Append(@, NewCall(fetch, parent, maxRedirects, "pending", req))]
    IN  IF maxRedirects <= 0
        THEN settle(add("none"), i, Rejected("Too many redirects"))
        ELSE IF UrlKind(url) = "malformed"
        THEN settle(add("none"), i, Rejected("Invalid URL"))
        ELSE IF UrlKind(url) = "unsupported"
        THEN settle(add("none"), i, Rejected("Protocol not supported"))
        ELSE IF aborted
        THEN settle(add("destroyed"), i, Rejected("Request aborted"))
        ELSE add("open")

\* fetchContent without the test of line 19.
fetchContentUnbounded(st, fetch, parent, url, maxRedirects, aborted) ==
    LET i == Len(st.calls) + 1
        add(req) ==
            [st EXCEPT !.calls = Append(@, NewCall(fetch, parent, maxRedirects, "pending", req))]
    IN  IF UrlKind(url) = "malformed"
        THEN settle(add("none"), i, Rejected("Invalid URL"))
        ELSE IF UrlKind(url) = "unsupported"
        THEN settle(add("none"), i, Rejected("Protocol not supported"))
        ELSE IF aborted
        THEN settle(add("destroyed"), i, Rejected("Request aborted"))
        ELSE add("open")

\* fetchContent(url, headers, signal, maxRedirects), lines 18-59: the
\* executor of the new promise, run at once. An exception in the executor
\* rejects the promise.
fetchContent(st, fetch, parent, url, maxRedirects, aborted) ==
    LET i == Len(st.calls) + 1
        add(req) ==
            [st EXCEPT !.calls = Append(@, NewCall(fetch, parent, maxRedirects, "pending", req))]
    IN  IF maxRedirects < 0
        THEN settle(add("none"), i, Rejected("Too many redirects"))
        ELSE IF UrlKind(url) = "malformed"
        THEN settle(add("none"), i, Rejected("Invalid URL"))
        ELSE IF UrlKind(url) = "unsupported"
        THEN settle(add("none"), i, Rejected("Protocol not supported"))
        ELSE IF aborted
        THEN settle(add("destroyed"), i, Rejected("Request aborted"))
        ELSE add("open")

\* res.statusCode && res.statusCode >= 300 && res.statusCode < 400 &&
\* res.headers.location (line 34)
isRedirect(head) ==
    /\ head.hasStatus /\ head.statusCode # 0
    /\ head.statusCode >= 300 /\ head.statusCode < 400
    /\ head.hasLocation /\ head.location # ""

\* The response callback of call i (lines 32-52) on a response with the
\* given head and body. thrown is TRUE when the callback throws: line 36
\* runs in the transport's callback, outside the executor and outside
\* execute's try.
onResponse(st, i, head, aborted) ==
    IF isRedirect(head)
    THEN IF UrlKind(head.location) = "malformed"
         THEN [st |-> [st EXCEPT !.calls[i].req = "redirected"], thrown |-> TRUE]
         ELSE [st |-> fetchContent([st EXCEPT !.calls[i].req = "redirected"],
                                   st.calls[i].fetch, i, head.location,
                                   st.calls[i].maxRedirects - 1, aborted),
               thrown |-> FALSE]
    ELSE [st |-> [st EXCEPT !.calls[i].req = "reading",
                            !.calls[i].res =
                                [hasStatus |-> head.hasStatus,
                                 statusCode |-> head.statusCode,
                                 hasContentType |-> head.hasContentType,
                                 contentType |-> head.contentType,
                                 body |-> head.body]],
          thrown |-> FALSE]

\* onEnd taking a status of 400 or more as a failure of the fetch.
onEndRejectsErrors(st, i) ==
    LET res == st.calls[i].res IN
    settle([st EXCEPT !.calls[i].req = "ended", !.calls[i].res = NoResponse], i,
           IF res.hasStatus /\ res.statusCode >= 400
           THEN Rejected("Request failed")
           ELSE Fulfilled(res.body,
                          IF res.hasContentType THEN res.contentType ELSE "",
                          IF res.hasStatus THEN res.statusCode ELSE 0))

\* The 'end' listener of call i (lines 45-51).
onEnd(st, i) ==
    LET res == st.calls[i].res IN
    settle([st EXCEPT !.calls[i].req = "ended", !.calls[i].res = NoResponse], i,
           Fulfilled(res.body,
                     IF res.hasContentType THEN res.contentType ELSE "",
                     IF res.hasStatus THEN res.statusCode ELSE 0))

\* The 'error' listener of call i (line 54): reject(err).
onError(st, i, message) ==
    settle([st EXCEPT !.calls[i].errored = TRUE, !.calls[i].res = NoResponse], i,
           Rejected(message))

(***************************************************************************)
(* execute of fetch_url                                                    *)
(***************************************************************************)

\* The length parseRsc's text must exceed to be returned (lines 168, 197).
MinRscLength == 50
\* The length article.content must exceed (line 179).
MinArticleLength == 100

RECURSIVE IntToString(_)
\* `${n}` for an integer n >= 0.
IntToString(n) ==
    IF n < 10 THEN Ch("0123456789", n + 1)
    ELSE IntToString(n \div 10) \o Ch("0123456789", (n % 10) + 1)

\* The keyword test of lines 148-151 and 214-217 on a lower-cased body.
hasChallengeKeyword(lower) ==
    \/ Includes(lower, "challenge")
    \/ Includes(lower, "captcha")
    \/ Includes(lower, "cloudflare")
    \/ Includes(lower, "just a moment...")

\* isChallenge with the keywords sought in the body as it is.
isChallengeCaseSensitive(statusCode, data) ==
    \/ statusCode = 403
    \/ statusCode = 429
    \/ statusCode = 503
    \/ hasChallengeKeyword(data)

\* isChallenge, lines 143-151.
isChallenge(statusCode, data) ==
    \/ statusCode = 403
    \/ statusCode = 429
    \/ statusCode = 503
    \/ hasChallengeKeyword(toLowerCase(data))

\* The test of lines 212-218 on the proxy's body.
jinaBlocked(data) == hasChallengeKeyword(toLowerCase(data))

\* A tool result.
NoResult == [returned |-> FALSE, isError |-> FALSE, text |-> ""]
Success(text) == [returned |-> TRUE, isError |-> FALSE, text |-> text]
Failure(text) == [returned |-> TRUE, isError |-> TRUE, text |-> text]

\* catchResult without the message of the error.
catchResultGeneric(message) ==
    Failure("Error fetching URL: request failed"
            \o "\n\nPlease try using the \"agent-browser\" tool to access this page.")

\* The result of the catch clause, lines 242-252.
catchResult(message) ==
    Failure("Error fetching URL: " \o message
            \o "\n\nPlease try using the \"agent-browser\" tool to access this page.")

\* The result of lines 219-227.
jinaBlockedResult ==
    Failure("Unable to fetch content due to access restrictions (Jina Reader also blocked).\nPlease use the \"agent-browser\" tool to access this page.")

\* The result of lines 232-240.
jinaStatusResult(statusCode) ==
    Failure("Failed to fetch content via local parser and Jina Reader (Status: "
            \o IntToString(statusCode) \o ").\nPlease use the \"agent-browser\" tool.")

\* What JSDOM, Readability and turndown make of an HTML body is theirs to
\* decide: a DOM outcome names which of them throws ("none" for none),
\* whether reader.parse() returns an article, the article's title, the
\* length of article.content, the Markdown turndown returns, and the
\* textContent of the document's script elements in document order.
NoArticle == [found |-> FALSE, title |-> "", contentLength |-> 0, markdown |-> ""]
Article(title, contentLength, markdown) ==
    [found |-> TRUE, title |-> title, contentLength |-> contentLength,
     markdown |-> markdown]
Dom(throws, article, scripts) ==
    [throws |-> throws, article |-> article, scripts |-> scripts]

\* An outcome of the synchronous code after an await: next is "return"
\* (with the result), "throw" (with the message, caught at line 242) or
\* "proxy" (line 205 is reached); branch names the branch taken and ops the
\* library and extractor calls made, in order.
Outcome(next, result, message, branch, ops) ==
    [next |-> next, result |-> result, message |-> message, branch |-> branch,
     ops |-> ops]

RECURSIVE scanScripts(_, _)

\* Lines 196-199: rscText is parseRsc of the first of the scripts, ops the
\* calls made so far, that one included.
afterScript(scripts, ops, rscText) ==
    IF Len(rscText) > MinRscLength
    THEN Outcome("return", Success(rscText), "", "script", ops)
    ELSE scanScripts(Tail(scripts), ops)

\* Lines 194-201: the loop over the script elements, ops being the calls
\* made before it.
scanScripts(scripts, ops) ==
    IF scripts = <<>> THEN Outcome("proxy", NoResult, "", "fallthrough", ops)
    ELSE IF scripts[1] # "" /\ Includes(scripts[1], "self.__next_f.push")
         THEN afterScript(scripts, Append(ops, "parseRsc(script)"),
                          parseRsc(scripts[1]))
         ELSE scanScripts(Tail(scripts), ops)

\* htmlBranch with the scripts scanned before Readability is asked.
htmlBranchScriptsFirst(dom, ops) ==
    IF dom.throws = "JSDOM"
    THEN Outcome("throw", NoResult, "JSDOM failed", "html", Append(ops, "JSDOM"))
    ELSE IF scanScripts(dom.scripts, Append(ops, "JSDOM")).next = "return"
    THEN scanScripts(dom.scripts, Append(ops, "JSDOM"))
    ELSE IF dom.throws = "Readability"
    THEN Outcome("throw", NoResult, "Readability failed", "html",
                 ops \o <<"JSDOM", "Readability">>)
    ELSE IF dom.article.found /\ dom.article.contentLength > MinArticleLength
    THEN IF dom.throws = "turndown"
         THEN Outcome("throw", NoResult, "turndown failed", "html",
                      ops \o <<"JSDOM", "Readability", "turndown">>)
         ELSE Outcome("return",
                      Success("# " \o dom.article.title \o "\n\n" \o dom.article.markdown),
                      "", "article", ops \o <<"JSDOM", "Readability", "turndown">>)
    ELSE Outcome("proxy", NoResult, "", "fallthrough", ops \o <<"JSDOM", "Readability">>)

\* Lines 173-202: the HTML branch, ops being the calls made before it.
htmlBranch(dom, ops) ==
    IF dom.throws = "JSDOM"
    THEN Outcome("throw", NoResult, "JSDOM failed", "html", Append(ops, "JSDOM"))
    ELSE IF dom.throws = "Readability"
    THEN Outcome("throw", NoResult, "Readability failed", "html",
                 ops \o <<"JSDOM", "Readability">>)
    ELSE IF dom.article.found /\ dom.article.contentLength # 0
            /\ dom.article.contentLength > MinArticleLength
    THEN IF dom.throws = "turndown"
         THEN Outcome("throw", NoResult, "turndown failed", "html",
                      ops \o <<"JSDOM", "Readability", "turndown">>)
         ELSE Outcome("return",
                      Success("# " \o dom.article.title \o "\n\n" \o dom.article.markdown),
                      "", "article", ops \o <<"JSDOM", "Readability", "turndown">>)
    ELSE scanScripts(dom.scripts, ops \o <<"JSDOM", "Readability">>)

\* Lines 173-204: the HTML branch or the fall through to line 205, ops
\* being the calls made before.
htmlOrProxy(contentType, dom, ops) ==
    IF Includes(contentType, "text/html") THEN htmlBranch(dom, ops)
    ELSE Outcome("proxy", NoResult, "", "fallthrough", ops)

\* afterRsc with a text of exactly MinRscLength characters returned too.
afterRscAtLeast(contentType, dom, rscText) ==
    IF Len(rscText) >= MinRscLength
    THEN Outcome("return", Success(rscText), "", "rsc", <<"parseRsc">>)
    ELSE htmlOrProxy(contentType, dom, <<"parseRsc">>)

\* Lines 168-171: rscText is parseRsc(data).
afterRsc(contentType, dom, rscText) ==
    IF Len(rscText) > MinRscLength
    THEN Outcome("return", Success(rscText), "", "rsc", <<"parseRsc">>)
    ELSE htmlOrProxy(contentType, dom, <<"parseRsc">>)

\* Lines 166-203: the branches on the content type of an unflagged 2xx
\* response that is not passed through.
extractBranch(data, contentType, dom) ==
    IF Includes(contentType, "text/x-component")
    THEN afterRsc(contentType, dom, parseRsc(data))
    ELSE htmlOrProxy(contentType, dom, <<>>)

\* classify with the content-type branch taken before the challenge test.
classifyPassthroughFirst(r, dom) ==
    IF /\ r.statusCode >= 200 /\ r.statusCode < 300
       /\ \/ Includes(r.contentType, "application/json")
          \/ Includes(r.contentType, "text/plain")
          \/ Includes(r.contentType, "text/markdown")
    THEN Outcome("return", Success(r.data), "", "passthrough", <<>>)
    ELSE IF isChallenge(r.statusCode, r.data)
    THEN Outcome("proxy", NoResult, "", "challenge", <<>>)
    ELSE IF r.statusCode >= 200 /\ r.statusCode < 300
    THEN extractBranch(r.data, r.contentType, dom)
    ELSE Outcome("proxy", NoResult, "", "status", <<>>)

\* classify with the content type compared for equality, not with includes.
classifyExactType(r, dom) ==
    IF isChallenge(r.statusCode, r.data)
    THEN Outcome("proxy", NoResult, "", "challenge", <<>>)
    ELSE IF r.statusCode >= 200 /\ r.statusCode < 300
    THEN IF r.contentType \in {"application/json", "text/plain", "text/markdown"}
         THEN Outcome("return", Success(r.data), "", "passthrough", <<>>)
         ELSE extractBranch(r.data, r.contentType, dom)
    ELSE Outcome("proxy", NoResult, "", "status", <<>>)

\* Lines 142-204: from the local FetchResult to a return, a throw or the
\* fall through to line 205.
classify(r, dom) ==
    IF isChallenge(r.statusCode, r.data)
    THEN Outcome("proxy", NoResult, "", "challenge", <<>>)
    ELSE IF r.statusCode >= 200 /\ r.statusCode < 300
    THEN IF \/ Includes(r.contentType, "application/json")
            \/ Includes(r.contentType, "text/plain")
            \/ Includes(r.contentType, "text/markdown")
         THEN Outcome("return", Success(r.data), "", "passthrough", <<>>)
         ELSE extractBranch(r.data, r.contentType, dom)
    ELSE Outcome("proxy", NoResult, "", "status", <<>>)

\* proxyClassify taking every status below 500 as a success.
proxyClassifyWide(r) ==
    IF r.statusCode >= 200 /\ r.statusCode < 500
    THEN IF jinaBlocked(r.data) THEN jinaBlockedResult ELSE Success(r.data)
    ELSE jinaStatusResult(r.statusCode)

\* Lines 210-241: from the proxy's FetchResult to the result.
proxyClassify(r) ==
    IF r.statusCode >= 200 /\ r.statusCode < 300
    THEN IF jinaBlocked(r.data) THEN jinaBlockedResult ELSE Success(r.data)
    ELSE jinaStatusResult(r.statusCode)

\* `https://r.jina.ai/${url}`, line 207.
jinaUrl(url) == "https://r.jina.ai/" \o url

\* The bounds of the model: the redirect responses the servers of one
\* invocation of fetch_url send, and the largest maxRedirects fetchContent
\* is run with on its own.
MaxRedirectResponses == 2
MaxBudget == 2
\* The 'error' events of one run on requests whose promise no longer waits
\* for them (the response was taken as a redirect, or line 56 destroyed it).
MaxLateErrors == 1
\* The redirect responses the servers of one invocation send when the URL
\* is MovedUrl: enough for a local fetch that uses its whole budget and a
\* proxy fetch that exceeds its own.
MaxChainRedirects == 11

(***************************************************************************)
(* The environment: what servers answer and what the DOM libraries return  *)
(***************************************************************************)

\* A string of 51 code units and its first 50.
Text51 == "The quick brown fox jumps over the lazy dog, twice."
Text50 == SubSeq(Text51, 1, 50)

\* The bodies a target server answers with: JSON, a challenge page, a
\* component payload whose extracted text has 51 code units and one whose
\* text has 50, an HTML page, nothing.
TargetBodies ==
    {"{\"a\":1}", "Please solve the CAPTCHA", "1:\"" \o Text51 \o "\"",
     "1:\"" \o Text50 \o "\"", "<html><body><p>Hi</p></body></html>", ""}

\* The bodies the proxy answers with.
ProxyBodies == {"# Title\n\nSome text", "Just a moment...", ""}

\* The content-type header values of a target server (FALSE: no header).
TargetContentTypes ==
    {<<FALSE, "">>, <<TRUE, "application/json">>,
     <<TRUE, "text/plain; charset=utf-8">>, <<TRUE, "text/markdown">>,
     <<TRUE, "text/x-component">>, <<TRUE, "text/html; charset=utf-8">>,
     <<TRUE, "text/html, text/x-component">>, <<TRUE, "image/png">>}

ProxyContentTypes == {<<FALSE, "">>, <<TRUE, "text/plain; charset=utf-8">>}

\* The status codes of a response (FALSE: res.statusCode is undefined).
StatusCodes ==
    {<<FALSE, 0>>, <<TRUE, 200>>, <<TRUE, 299>>, <<TRUE, 300>>, <<TRUE, 399>>,
     <<TRUE, 400>>, <<TRUE, 403>>, <<TRUE, 429>>, <<TRUE, 503>>}

ResponseHead(status, location, contentType, body) ==
    [hasStatus |-> status[1], statusCode |-> status[2],
     hasLocation |-> location[1], location |-> location[2],
     hasContentType |-> contentType[1], contentType |-> contentType[2],
     body |-> body]

\* The responses that are redirects for line 34; what else they carry is
\* not read.
RedirectHeads ==
    {ResponseHead(s, <<TRUE, l>>, <<FALSE, "">>, "") :
        s \in {<<TRUE, 300>>, <<TRUE, 399>>}, l \in Locations \ {""}}

\* The responses that are read to their end: every status, content type and
\* body without a Location header, and the responses with a Location header
\* that line 34 does not take as redirects.
FinalHeads(contentTypes, bodies) ==
    {ResponseHead(s, <<FALSE, "">>, c, b) :
        s \in StatusCodes, c \in contentTypes, b \in bodies}
    \cup {ResponseHead(s, <<TRUE, "">>, <<FALSE, "">>, "") :
            s \in {<<TRUE, 300>>, <<TRUE, 399>>}}
    \cup {ResponseHead(s, <<TRUE, "/next">>, <<FALSE, "">>, "") :
            s \in {<<FALSE, 0>>, <<TRUE, 200>>, <<TRUE, 299>>, <<TRUE, 400>>}}

TargetHeads == RedirectHeads \cup FinalHeads(TargetContentTypes, TargetBodies)
ProxyHeads == RedirectHeads \cup FinalHeads(ProxyContentTypes, ProxyBodies)

\* The responses behind MovedUrl: a redirect to the next hop, or a final
\* response that is a refusal or a short text.
MovedHeads ==
    {ResponseHead(<<TRUE, 300>>, <<TRUE, "/next">>, <<FALSE, "">>, ""),
     ResponseHead(<<TRUE, 403>>, <<FALSE, "">>, <<FALSE, "">>, ""),
     ResponseHead(<<TRUE, 200>>, <<FALSE, "">>,
                  <<TRUE, "text/plain; charset=utf-8">>, "# Title\n\nSome text")}

ResponseHeads(url, fetch) ==
    IF url = MovedUrl THEN MovedHeads
    ELSE IF fetch = "proxy" THEN ProxyHeads ELSE TargetHeads

\* A script with the marker whose rows give 51 code units, one whose rows
\* give 50, one with rows but no marker.
ScriptLong == "self.__next_f.push\n1:\"" \o Text51 \o "\""
ScriptShort == "self.__next_f.push\n1:\"" \o Text50 \o "\""
ScriptNoMarker == "1:\"" \o Text51 \o "\""

DomOutcomes ==
    {Dom("JSDOM", NoArticle, <<>>),
     Dom("Readability", NoArticle, <<>>),
     Dom("turndown", Article("Title", MinArticleLength + 1, ""), <<>>),
     Dom("none", Article("Title", MinArticleLength + 1, "Some *text*"), <<ScriptLong>>),
     Dom("none", Article("Title", MinArticleLength + 1, ""), <<>>),
     Dom("none", Article("Title", MinArticleLength, "Some *text*"), <<>>),
     Dom("none", NoArticle, <<"", ScriptNoMarker, ScriptShort, ScriptLong, ScriptLong>>),
     Dom("none", NoArticle, <<ScriptNoMarker, ScriptShort>>),
     Dom("none", NoArticle, <<>>)}

(***************************************************************************)
(* The state                                                               *)
(***************************************************************************)

VARIABLES
    aborted,        \* signal.aborted
    url,            \* params.url
    pc,             \* where execute is: "start", "local" (awaiting line 140),
                    \* "proxy" (awaiting line 208), "done"; "fetch" when
                    \* fetchContent is run on its own
    calls,          \* the fetchContent calls made, in order
    tops,           \* the settlements of the promises execute awaits
    branch,         \* the branch lines 142-204 took
    trace,          \* the fetches and extractor calls execute made, in order
    result,         \* what execute returned
    uncaught,       \* an exception left a transport callback uncaught
    signalAtStart,  \* "aborted" or "live": signal.aborted when execute began
    arg,            \* the argument of a function run on its own
    ret             \* and what it returned

vars ==
    <<aborted, url, pc, calls, tops, branch, trace, result, uncaught,
      signalAtStart, arg, ret>>

State == [calls |-> calls, tops |-> tops]

\* The FetchResult of line 140 once the code can no longer read it.
consumed == Fulfilled("", "", 0)

(***************************************************************************)
(* fetch_url: the actions                                                  *)
(***************************************************************************)

Init ==
    /\ aborted \in BOOLEAN
    /\ url \in TargetUrls
    /\ pc = "start"
    /\ calls = <<>>
    /\ tops = EmptyTops
    /\ branch = "none"
    /\ trace = <<>>
    /\ result = NoResult
    /\ uncaught = FALSE
    /\ signalAtStart = "unset"
    /\ arg = "none"
    /\ ret = "none"

\* execute, lines 134-140, up to the await.
execute ==
    /\ pc = "start"
    /\ \E st \in {fetchContent(State, "local", 0, url, DefaultMaxRedirects, aborted)} :
          calls' = st.calls /\ tops' = st.tops
    /\ pc' = "local"
    /\ trace' = Append(trace, "fetch(local)")
    /\ signalAtStart' = IF aborted THEN "aborted" ELSE "live"
    /\ UNCHANGED <<aborted, url, branch, result, uncaught, arg, ret>>

\* The host cancels the token.
Abort ==
    /\ ~aborted
    /\ aborted' = TRUE
    /\ UNCHANGED <<url, pc, calls, tops, branch, trace, result, uncaught,
                   signalAtStart, arg, ret>>

\* The number of responses taken as redirects so far.
redirectsSeen == Cardinality({j \in DOMAIN calls : calls[j].req = "redirected"})

\* The transport delivers the response of call i: the callback of line 32.
\* The servers of one invocation of fetch_url send at most
\* MaxRedirectResponses redirects, MaxChainRedirects behind MovedUrl; when
\* fetchContent is run on its own, the caller's maxRedirects bounds the
\* chain.
Response(i) ==
    /\ calls[i].req = "open" /\ ~calls[i].errored
    /\ \E head \in ResponseHeads(url, calls[i].fetch) :
          /\ (isRedirect(head) /\ pc # "fetch") =>
                redirectsSeen < (IF url = MovedUrl THEN MaxChainRedirects
                                                   ELSE MaxRedirectResponses)
          /\ \E out \in {onResponse(State, i, head, aborted)} :
                /\ calls' = out.st.calls
                /\ tops' = out.st.tops
                /\ uncaught' = (uncaught \/ out.thrown)
    /\ UNCHANGED <<aborted, url, pc, branch, trace, result, signalAtStart, arg, ret>>

\* The response of call i ends: the listener of line 45.
End(i) ==
    /\ calls[i].req = "reading" /\ ~calls[i].errored
    /\ \E st \in {onEnd(State, i)} : calls' = st.calls /\ tops' = st.tops
    /\ UNCHANGED <<aborted, url, pc, branch, trace, result, uncaught,
                   signalAtStart, arg, ret>>

\* The 'error' events so far on requests that were redirected or destroyed.
lateErrors ==
    Cardinality({j \in DOMAIN calls :
                    calls[j].errored /\ calls[j].req \in {"redirected", "destroyed"}})

\* The request of call i emits 'error': the listener of line 54. A request
\* emits it once, and none of its events follows it.
ReqError(i) ==
    /\ calls[i].req \in {"open", "redirected", "reading", "destroyed"}
    /\ ~calls[i].errored
    /\ calls[i].req \in {"redirected", "destroyed"} => lateErrors < MaxLateErrors
    /\ \E st \in {onError(State, i, IF aborted THEN "The operation was aborted"
                                                ELSE "socket hang up")} :
          calls' = st.calls /\ tops' = st.tops
    /\ UNCHANGED <<aborted, url, pc, branch, trace, result, uncaught,
                   signalAtStart, arg, ret>>

\* The DOM outcomes to consider: the libraries run only in the branch of
\* line 173.
domChoices(contentType) ==
    IF Includes(contentType, "text/html") THEN DomOutcomes
    ELSE {Dom("none", NoArticle, <<>>)}

\* execute resumes at line 140 with the local FetchResult and runs to a
\* return, to the catch clause or to the await of line 208.
Classify ==
    /\ pc = "local" /\ tops.local.how = "fulfilled"
    /\ \E dom \in domChoices(tops.local.contentType) :
       \E out \in {classify(tops.local, dom)} :
          /\ branch' = out.branch
          /\ IF out.next = "proxy"
             THEN \E st \in {fetchContent([State EXCEPT !.tops.local = consumed],
                                          "proxy", 0, jinaUrl(url),
                                          DefaultMaxRedirects, aborted)} :
                      /\ calls' = st.calls
                      /\ tops' = st.tops
                      /\ pc' = "proxy"
                      /\ trace' = (trace \o out.ops) \o <<"fetch(proxy)">>
                      /\ result' = result
             ELSE /\ calls' = calls
                  /\ tops' = tops
                  /\ pc' = "done"
                  /\ trace' = trace \o out.ops
                  /\ result' = IF out.next = "throw" THEN catchResult(out.message)
                                                     ELSE out.result
    /\ UNCHANGED <<aborted, url, uncaught, signalAtStart, arg, ret>>

\* execute resumes at line 208 with the proxy's FetchResult.
ProxyClassify ==
    /\ pc = "proxy" /\ tops.proxy.how = "fulfilled"
    /\ result' = proxyClassify(tops.proxy)
    /\ pc' = "done"
    /\ UNCHANGED <<aborted, url, calls, tops, branch, trace, uncaught,
                   signalAtStart, arg, ret>>

\* The awaited promise is rejected: the catch clause, lines 242-252.
Catch ==
    /\ pc \in {"local", "proxy"} /\ tops[pc].how = "rejected"
    /\ result' = catchResult(tops[pc].message)
    /\ pc' = "done"
    /\ UNCHANGED <<aborted, url, calls, tops, branch, trace, uncaught,
                   signalAtStart, arg, ret>>

Next ==
    \/ execute
    \/ Abort
    \/ \E i \in DOMAIN calls : Response(i)
    \/ \E i \in DOMAIN calls : End(i)
    \/ \E i \in DOMAIN calls : ReqError(i)
    \/ Classify
    \/ ProxyClassify
    \/ Catch

Spec == Init /\ [][Next]_vars

(***************************************************************************)
(* fetchContent on its own                                                 *)
(***************************************************************************)

InitFetch ==
    /\ aborted \in BOOLEAN
    /\ url \in TargetUrls
    /\ pc = "idle"
    /\ calls = <<>>
    /\ tops = EmptyTops
    /\ branch = "none"
    /\ trace = <<>>
    /\ result = NoResult
    /\ uncaught = FALSE
    /\ signalAtStart = "unset"
    /\ arg = "none"
    /\ ret = "none"

\* A caller runs fetchContent(url, headers, signal, n) and keeps the promise.
callFetchContent ==
    /\ pc = "idle"
    /\ \E n \in 0..MaxBudget :
       \E st \in {fetchContent(State, "local", 0, url, n, aborted)} :
          calls' = st.calls /\ tops' = st.tops
    /\ pc' = "fetch"
    /\ UNCHANGED <<aborted, url, branch, trace, result, uncaught, signalAtStart,
                   arg, ret>>

NextFetch ==
    \/ callFetchContent
    \/ Abort
    \/ \E i \in DOMAIN calls : Response(i)
    \/ \E i \in DOMAIN calls : End(i)
    \/ \E i \in DOMAIN calls : ReqError(i)

SpecFetch == InitFetch /\ [][NextFetch]_vars

\* The maxRedirects the caller passed.
budget == calls[1].maxRedirects

\* The chain so far is one of redirect responses only: the token is live, no
\* request has emitted 'error', and no URL, the caller's or a Location, was
\* refused by `new URL` or by the transport.
cleanChain ==
    /\ calls # <<>>
    /\ ~aborted /\ ~uncaught
    /\ \A j \in DOMAIN calls : ~calls[j].errored
    /\ tops.local.message \notin {"Invalid URL", "Protocol not supported"}

C1_Counter ==
    \A j \in DOMAIN calls :
        /\ calls[j].maxRedirects = budget - (j - 1)
        /\ calls[j].parent = j - 1

C1_Chain ==
    cleanChain =>
        /\ redirectsSeen <= budget =>
              /\ tops.local.how # "rejected"
              /\ calls[Len(calls)].req \in {"open", "reading", "ended"}
              /\ calls[Len(calls)].req = "ended" <=> tops.local.how = "fulfilled"
        /\ redirectsSeen > budget =>
              /\ redirectsSeen = budget + 1
              /\ Len(calls) = budget + 2
              /\ calls[Len(calls)].req = "none"
              /\ tops.local = Rejected("Too many redirects")

C1_End ==
    \A i \in DOMAIN calls :
        (cleanChain /\ calls[i].req = "reading" /\ calls'[i].req = "ended") =>
            /\ i = redirectsSeen + 1
            /\ tops'.local =
                  Fulfilled(calls[i].res.body,
                            IF calls[i].res.hasContentType
                            THEN calls[i].res.contentType ELSE "",
                            IF calls[i].res.hasStatus
                            THEN calls[i].res.statusCode ELSE 0)

\* C1: fetchContent called with maxRedirects = N against k redirect
\* responses followed by one other response: every hop runs with a counter
\* one below its caller's; while k <= N the promise is not rejected and is
\* fulfilled, when the last response ends, with that response's body,
\* content type and status; once k > N the promise is rejected with
\* 'Too many redirects' after exactly N + 1 requests, and no further request
\* is made.
C1_RedirectBudget ==
    /\ [](pc = "fetch" => C1_Counter /\ C1_Chain)
    /\ [][pc = "fetch" => C1_End]_vars

\* A chain of budget + 1 redirects, with a budget of at least 1, that was
\* refused.
C1_Witness ==
    /\ pc = "fetch" /\ cleanChain
    /\ budget >= 1 /\ redirectsSeen = budget + 1
    /\ tops.local.message = "Too many redirects"

(***************************************************************************)
(* fetch_url: properties of an invocation                                  *)
(***************************************************************************)

\* C2: when the token is cancelled as execute begins, no request is issued
\* to the transport, for the target or for the proxy, and the invocation
\* ends in the error result that carries 'Request aborted'.
C2_NoRequestWhenCancelled ==
    signalAtStart = "aborted" =>
        /\ \A j \in DOMAIN calls : calls[j].req = "none"
        /\ pc = "done" => result = catchResult("Request aborted")

\* C3: no exception leaves the invocation other than through the catch
\* clause, and a rejected fetch ends in the error result that carries its
\* message.
C3_AllErrorsCaught ==
    /\ ~uncaught
    /\ \A f \in {"local", "proxy"} :
          (pc = "done" /\ tops[f].how = "rejected" /\ branch = "none") =>
              result = catchResult(tops[f].message)

\* Some request of the fetch execute awaits still owes it an event.
owesEvent ==
    \E i \in DOMAIN calls :
        /\ calls[i].fetch = pc
        /\ calls[i].req \in {"open", "reading"}
        /\ ~calls[i].errored

\* C4: an invocation that has not returned can still move: it has yet to
\* begin, or the promise it awaits is settled, or a request of that fetch
\* still owes a response, an end or an error.
C4_NeverLeftPending ==
    \/ pc \in {"start", "done"}
    \/ tops[pc].how # "pending"
    \/ owesEvent

\* The step in which execute resumes after line 140 with a FetchResult.
resumesLocal == pc = "local" /\ tops.local.how = "fulfilled" /\ pc' # pc

\* C5: when isChallenge flags the local response, the step after the local
\* fetch issues the proxy fetch and nothing else: no result is returned and
\* neither Readability nor parseRsc is called, whatever the content type.
C5_ChallengeGoesToProxy ==
    [][(resumesLocal /\ isChallenge(tops.local.statusCode, tops.local.data)) =>
          /\ pc' = "proxy"
          /\ branch' = "challenge"
          /\ trace' = Append(trace, "fetch(proxy)")
          /\ result' = NoResult
          /\ Len(calls') = Len(calls) + 1
          /\ calls'[Len(calls')].fetch = "proxy"
          /\ calls'[Len(calls')].parent = 0]_vars

C5_Witness ==
    /\ pc = "proxy" /\ branch = "challenge"
    /\ trace = <<"fetch(local)", "fetch(proxy)">>
    /\ calls[Len(calls)].req = "open"

\* C6: a local response with a status in [200,300) that isChallenge does not
\* flag and whose content type names JSON, plain text or markdown is
\* returned as a success whose text is the body, with no extractor called
\* and no further fetch.
C6_PassthroughVerbatim ==
    [][(/\ resumesLocal
        /\ ~isChallenge(tops.local.statusCode, tops.local.data)
        /\ tops.local.statusCode >= 200 /\ tops.local.statusCode < 300
        /\ \E t \in {"application/json", "text/plain", "text/markdown"} :
              Includes(tops.local.contentType, t)) =>
          /\ pc' = "done"
          /\ result' = [returned |-> TRUE, isError |-> FALSE, text |-> tops.local.data]
          /\ trace' = trace
          /\ calls' = calls]_vars

C6_Witness ==
    /\ pc = "done" /\ branch = "passthrough"
    /\ result = Success("{\"a\":1}")
    /\ tops.local.contentType = "application/json"
    /\ trace = <<"fetch(local)">>

\* The step in which execute resumes after line 208 with a FetchResult.
resumesProxy == pc = "proxy" /\ tops.proxy.how = "fulfilled" /\ pc' # pc

\* C7: the proxy's response is decided in this order: a status outside
\* [200,300) gives an error result that names the status; else a response
\* that isChallenge flags gives the error result that says the proxy was
\* blocked too; else the result is a success whose text is the body. So the
\* keyword test of lines 212-218 agrees with isChallenge wherever it runs.
C7_ProxyDecision ==
    [][resumesProxy =>
          LET r == tops.proxy IN
          /\ pc' = "done"
          /\ IF ~(r.statusCode >= 200 /\ r.statusCode < 300)
             THEN /\ result'.isError
                  /\ Includes(result'.text,
                              "(Status: " \o IntToString(r.statusCode) \o ")")
             ELSE IF isChallenge(r.statusCode, r.data)
             THEN /\ result'.isError
                  /\ Includes(result'.text, "Jina Reader also blocked")
             ELSE result' = [returned |-> TRUE, isError |-> FALSE, text |-> r.data]]_vars

C7_Witness ==
    /\ pc = "done" /\ tops.proxy.how = "fulfilled"
    /\ tops.proxy.statusCode = 200
    /\ tops.proxy.data = "Just a moment..."
    /\ result = jinaBlockedResult

(***************************************************************************)
(* isChallenge on its own                                                  *)
(***************************************************************************)

\* Bodies are made of a prefix, a word and a suffix; the words are the
\* keywords in several letter cases and words that are none of them.
KeywordForms ==
    {"challenge", "Challenge", "captcha", "CAPTCHA", "CaPtChA", "cloudflare",
     "CloudFlare", "just a moment...", "Just a Moment..."}
OtherWords ==
    {"", "captch", "chalenge", "cloud flare", "just a moment..", "welcome"}
BodyPrefixes == {"", "Please solve the "}
BodySuffixes == {"", " now!"}
DetectStatuses == {0, 200, 204, 404, 403, 429, 503, 500}

bodyOf(a) == (a.prefix \o a.word) \o a.suffix

InitDetect ==
    /\ arg \in [statusCode : DetectStatuses, prefix : BodyPrefixes,
                word : KeywordForms \cup OtherWords, suffix : BodySuffixes]
    /\ ret = "none"
    /\ pc = "detect"
    /\ aborted = FALSE
    /\ url = ""
    /\ calls = <<>>
    /\ tops = EmptyTops
    /\ branch = "none"
    /\ trace = <<>>
    /\ result = NoResult
    /\ uncaught = FALSE
    /\ signalAtStart = "unset"

callIsChallenge ==
    /\ pc = "detect"
    /\ ret' = isChallenge(arg.statusCode, bodyOf(arg))
    /\ pc' = "detected"
    /\ UNCHANGED <<aborted, url, calls, tops, branch, trace, result, uncaught,
                   signalAtStart, arg>>

SpecDetect == InitDetect /\ [][callIsChallenge]_vars

\* C8: isChallenge is true exactly when the status is 403, 429 or 503 or the
\* body holds one of the four keywords in some letter case: true for the
\* three statuses whatever the body, true for 200 with "captcha" in any
\* case, false for a status outside the three with none of the keywords.
C8_DetectorRule ==
    pc = "detected" =>
        (ret <=> (arg.statusCode \in {403, 429, 503} \/ arg.word \in KeywordForms))

C8_Witness ==
    /\ pc = "detected"
    /\ arg.statusCode = 200 /\ arg.word = "CaPtChA" /\ arg.prefix # ""
    /\ ret = TRUE

(***************************************************************************)
(* parseRsc on its own                                                     *)
(***************************************************************************)

Filler == "abcdefghijklmnopqrstuvwxyz"
\* A second string, of 26 code units, that every rule keeps.
Other == "ZYXWVUTSRQPONMLKJIHGFEDCBA"

\* The string of the given length that starts with head and holds letters
\* only after it.
Str(head, len) == head \o SubSeq(Filler, 1, len - Len(head))

\* The JSON literal of Str(head, len), plain or with the escape \n or \"
\* after the head.
Lit(head, len, esc) ==
    IF esc = "plain" THEN ("\"" \o Str(head, len)) \o "\""
    ELSE (("\"" \o head) \o (IF esc = "newline" THEN "\\n" ELSE "\\\""))
             \o (SubSeq(Filler, 1, (len - Len(head)) - 1) \o "\"")

\* The string Lit(head, len, esc) stands for.
Decoded(head, len, esc) ==
    IF esc = "plain" THEN Str(head, len)
    ELSE (head \o (IF esc = "newline" THEN "\n" ELSE "\""))
             \o SubSeq(Filler, 1, (len - Len(head)) - 1)

\* Payloads that are JSON texts.
ValidKinds ==
    {"string", "array", "two", "nested", "object", "number", "example"}
\* Payloads that are not, each holding the literal between quotes that pair
\* up from the left.
BrokenKinds == {"unterminated", "trailingComma", "bare", "badEscape"}
\* A payload that is not a JSON text and holds the literal after a quote
\* that is on its own.
StrayKinds == {"strayQuote"}

Heads == {"a", "$", "@", "["}
Lengths == {MinStringLength, MinStringLength + 1}
Escapes == {"plain", "newline", "quote"}
Frames == {"alone", "amid", "after"}

payloadOf(a) ==
    LET lit == Lit(a.head, a.len, a.esc) IN
    CASE a.kind = "string" -> lit
      [] a.kind = "array" -> ("[\"$\",\"div\",null, " \o lit) \o ",7]"
      [] a.kind = "two" -> ((("[" \o lit) \o ",\"") \o Other) \o "\"]"
      [] a.kind = "nested" ->
            ((("[\"$\",\"div\",{\"children\":" \o lit) \o "},[") \o lit) \o "]]"
      [] a.kind = "object" -> ("{\"children\":" \o lit) \o "}"
      [] a.kind = "number" -> "12345678901234567890123"
      [] a.kind = "example" -> "[\"$\",\"div\",{\"children\":\"short\"}]"
      [] a.kind = "unterminated" -> "[\"$\",\"div\"," \o lit
      [] a.kind = "trailingComma" -> ("[" \o lit) \o ",]"
      [] a.kind = "bare" -> ("see " \o lit) \o " here"
      [] a.kind = "badEscape" -> ("[\"" \o Other) \o ("\\x\"," \o lit)
      [] a.kind = "strayQuote" -> "5\" wide " \o lit

\* The text parseRsc is given: the row on its own, between rows that give
\* nothing, or after a row that gives Other.
dataOf(a) ==
    LET row == "2:" \o payloadOf(a) IN
    CASE a.frame = "alone" -> row
      [] a.frame = "amid" -> ("  0:{\"x\":1}\n\n# note\n " \o row) \o " \r\nx:\"y\"\n17:"
      [] a.frame = "after" -> (("10:\"" \o Other) \o "\"\n") \o row

InitRsc ==
    /\ arg \in [kind : ValidKinds \cup BrokenKinds \cup StrayKinds, head : Heads,
                len : Lengths, esc : Escapes, frame : Frames]
    /\ arg.kind \in {"number", "example"} =>
          arg.head = "a" /\ arg.len = MinStringLength /\ arg.esc = "plain"
    /\ arg.frame # "alone" => arg.esc = "plain"
    /\ ret = "none"
    /\ pc = "rsc"
    /\ aborted = FALSE
    /\ url = ""
    /\ calls = <<>>
    /\ tops = EmptyTops
    /\ branch = "none"
    /\ trace = <<>>
    /\ result = NoResult
    /\ uncaught = FALSE
    /\ signalAtStart = "unset"

callParseRsc ==
    /\ pc = "rsc"
    /\ ret' = parseRsc(dataOf(arg))
    /\ pc' = "parsed"
    /\ UNCHANGED <<aborted, url, calls, tops, branch, trace, result, uncaught,
                   signalAtStart, arg>>

SpecRsc == InitRsc /\ [][callParseRsc]_vars

\* The text parseRsc returns when the row of the recipe gives the strings
\* kept, in order.
outputOf(a, kept) ==
    LET all == IF a.frame = "after" THEN <<Other>> \o kept ELSE kept IN
    CASE all = <<>> -> ""
      [] Len(all) = 1 -> all[1]
      [] Len(all) = 2 -> (all[1] \o "\n\n") \o all[2]
      [] OTHER -> ((all[1] \o "\n\n") \o (all[2] \o "\n\n")) \o all[3]

\* What the rules of lines 85-100 keep of a row whose payload is a JSON
\* text, from the recipe of the row.
keptValid(a) ==
    LET long == a.len > MinStringLength
        str == Decoded(a.head, a.len, a.esc)
    IN  CASE a.kind = "string" ->
                IF long /\ a.head \notin {"$", "@"} THEN <<str>> ELSE <<>>
          [] a.kind = "array" ->
                IF long /\ a.head \notin {"$", "@", "["} THEN <<str>> ELSE <<>>
          [] a.kind = "two" ->
                IF long /\ a.head \notin {"$", "@", "["} THEN <<str, Other>>
                ELSE <<Other>>
          [] OTHER -> <<>>

\* What the scan of lines 102-119 keeps of a row whose payload is no JSON
\* text, from the recipe of the row.
keptBroken(a) ==
    IF /\ a.kind \in BrokenKinds
       /\ a.len > MinStringLength
       /\ a.head \notin {"$", "@"}
    THEN <<Decoded(a.head, a.len, a.esc)>>
    ELSE <<>>

\* C9 with the threshold at 20 characters: a row whose payload is no JSON text and holds a
\* quoted literal of at least 20 characters that starts with neither $ nor @
\* gives an output that contains the string.
C9_AtLeastTwenty ==
    (/\ pc = "parsed"
     /\ arg.kind \in BrokenKinds
     /\ arg.len >= 20
     /\ arg.head \notin {"$", "@"}) =>
        Includes(ret, Decoded(arg.head, arg.len, arg.esc))

\* C9: of a row whose payload is no JSON text, the output holds each quoted
\* literal that the scan pairs up from the left, that is a JSON string of
\* more than 20 characters once decoded and that starts with neither $ nor
\* @ (a leading [ does not exclude it here); a literal of 20 characters, one
\* that starts with $ or @, one that is no JSON string and one whose opening
\* quote the scan has paired with an earlier quote give nothing.
C9_FallbackScan ==
    (pc = "parsed" /\ arg.kind \in BrokenKinds \cup StrayKinds) =>
        ret = outputOf(arg, keptBroken(arg))

C9_Witness ==
    /\ pc = "parsed"
    /\ arg.kind = "unterminated" /\ arg.head = "[" /\ arg.esc = "quote"
    /\ arg.len = MinStringLength + 1 /\ arg.frame = "alone"
    /\ ret = Decoded("[", MinStringLength + 1, "quote")

\* C10: of a row whose payload is a JSON text, a string is kept when it is
\* longer than 20 characters and starts with neither $ nor @; of an array,
\* each element that is a string longer than 20 characters and starts with
\* none of $, @ and [ is kept, in order; numbers, objects, arrays inside the
\* array, shorter strings and strings inside objects give nothing, so the
\* row 2:["$","div",{"children":"short"}] gives the empty text.
C10_StructuredRows ==
    (pc = "parsed" /\ arg.kind \in ValidKinds) =>
        ret = outputOf(arg, keptValid(arg))

C10_Witness ==
    /\ pc = "parsed"
    /\ arg.kind = "two" /\ arg.head = "[" /\ arg.esc = "plain"
    /\ arg.len = MinStringLength + 1 /\ arg.frame = "alone"
    /\ ret = Other

(***************************************************************************)
(* fetch_url: what an invocation returns and what it leaves behind         *)
(***************************************************************************)

\* C11: the text of a success returned through an extractor is longer than
\* the threshold of the call site that returned it: more than MinRscLength
\* for the text of parseRsc (on the body or on a script), more than
\* MinArticleLength for the article.
C11_ExtractorTextMeetsThreshold ==
    (pc = "done" /\ result.returned /\ ~result.isError) =>
        /\ branch \in {"rsc", "script"} => Len(result.text) > MinRscLength
        /\ branch = "article" => Len(result.text) > MinArticleLength

\* The requests that still hold their socket: issued, not destroyed, without
\* an 'error', and with a response that has not been read to its end.
holdsSocket(i) ==
    /\ calls[i].req \in {"open", "redirected", "reading"}
    /\ ~calls[i].errored

\* C12: when the invocation has returned, no request of it holds a socket.
C12_ResourcesReleased ==
    pc = "done" => \A i \in DOMAIN calls : ~holdsSocket(i)

(***************************************************************************)
(* web_search: the results of a response                                   *)
(***************************************************************************)

\* The results returned when the caller gives no limit (line 455).
DefaultLimit == 10

\* The bounds of the model: the results upstream sends, and the largest
\* limit and the largest negated limit a caller gives.
MaxUpstream == 12
MaxLimit == 12
MaxNegatedLimit == 3

\* params.limit: given is FALSE when the caller passes none.
Limit(given, value) == [given |-> given, value |-> value]

\* limit || 10 (line 455): undefined and 0 give 10.
limitOrDefault(limit) ==
    IF limit.given /\ limit.value # 0 THEN limit.value ELSE DefaultLimit

\* The index Array.prototype.slice(0, end) stops before, for an array of
\* len elements: a negative end counts from the end of the array.
sliceFinal(len, end) ==
    IF end < 0 THEN (IF len + end > 0 THEN len + end ELSE 0)
    ELSE IF end < len THEN end ELSE len

\* arr.slice(0, end)
slice(arr, end) == SubSeq(arr, 1, sliceFinal(Len(arr), end))

\* The k-th result of an upstream response: the fields the tool copies and
\* one it does not.
upstreamResult(k) ==
    [title |-> "Result", url |-> "https://example.com/", content |-> "text",
     publishedDate |-> "2024-01-01", engine |-> "engine", score |-> k,
     category |-> "general"]

\* jsonResponse.results || [] (line 454): has is FALSE when the response
\* has no results member.
upstreamResults(has, n) ==
    IF has THEN [k \in 1..n |-> upstreamResult(k)] ELSE <<>>

\* The callback of map, lines 456-463.
formatResult(r) ==
    [title |-> r.title, url |-> r.url, content |-> r.content,
     publishedDate |-> r.publishedDate, engine |-> r.engine, score |-> r.score]

\* formattedResults, lines 454-463.
formattedResults(results, limit) ==
    LET kept == slice(results, limitOrDefault(limit))
    IN  [k \in 1..Len(kept) |-> formatResult(kept[k])]

InitSearch ==
    /\ arg \in [has : BOOLEAN, n : 0..MaxUpstream,
                limit : {Limit(FALSE, 0)}
                        \cup {Limit(TRUE, v) : v \in (0 - MaxNegatedLimit)..MaxLimit}]
    /\ ~arg.has => arg.n = 0
    /\ ret = <<>>
    /\ pc = "search"
    /\ aborted = FALSE
    /\ url = ""
    /\ calls = <<>>
    /\ tops = EmptyTops
    /\ branch = "none"
    /\ trace = <<>>
    /\ result = NoResult
    /\ uncaught = FALSE
    /\ signalAtStart = "unset"

\* The 'end' listener of web_search on a 2xx response, up to line 463.
callFormattedResults ==
    /\ pc = "search"
    /\ ret' = formattedResults(upstreamResults(arg.has, arg.n), arg.limit)
    /\ pc' = "searched"
    /\ UNCHANGED <<aborted, url, calls, tops, branch, trace, result, uncaught,
                   signalAtStart, arg>>

SpecSearch == InitSearch /\ [][callFormattedResults]_vars

\* The first m results of upstream, in upstream order, as the tool shapes
\* them.
front(m) ==
    [k \in 1..m |-> formatResult(upstreamResult(k))]

\* The number of results that truncating n results to a limit leaves.
truncated(n, limit) ==
    IF limit <= 0 THEN 0 ELSE IF limit < n THEN limit ELSE n

\* C13: the results returned are the front of the upstream list, in
\* upstream order, truncated to the limit: to 10 when no limit is given, and
\* to the limit for every limit given, 0 and negative limits included.
C13_TruncatedToLimit ==
    pc = "searched" =>
        ret = front(truncated(arg.n, IF arg.limit.given THEN arg.limit.value
                                                         ELSE DefaultLimit))

(***************************************************************************)
(* fetch_url: the order of the stages                                      *)
(***************************************************************************)

\* The error result that names the message of an error.
errorNaming(message) ==
    [returned |-> TRUE, isError |-> TRUE,
     text |-> "Error fetching URL: " \o message
              \o "\n\nPlease try using the \"agent-browser\" tool to access this page."]

\* C14: when the promise of the local fetch is rejected, whatever the error
\* (an 'error' of the transport, too many redirects, the abort, a URL that
\* is refused), the next step of execute returns the error result that
\* carries the error's message; no proxy fetch is issued and no extractor
\* is called, before or after.
C14_LocalFailureGoesToError ==
    /\ [](tops.local.how = "rejected" =>
            /\ \A i \in DOMAIN calls : calls[i].fetch = "local"
            /\ trace = <<"fetch(local)">>
            /\ branch = "none"
            /\ pc \in {"local", "done"}
            /\ pc = "done" => result = errorNaming(tops.local.message))
    /\ [][(pc = "local" /\ tops.local.how = "rejected" /\ pc' # pc) =>
            /\ pc' = "done"
            /\ result' = errorNaming(tops.local.message)
            /\ calls' = calls /\ tops' = tops /\ trace' = trace]_vars

\* A local fetch that used up its redirects, and the error result made of it.
C14_Witness ==
    /\ pc = "done"
    /\ tops.local = Rejected("Too many redirects")
    /\ Len(calls) = DefaultMaxRedirects + 2
    /\ result = errorNaming("Too many redirects")

(***************************************************************************)
(* fetchContent: responses that are not redirects                          *)
(***************************************************************************)

\* A response that is not a redirect with a Location: its status is outside
\* [300,400), or it has no Location header, or an empty one.
notRedirectWithLocation(head) ==
    ~(/\ head.hasStatus /\ head.statusCode >= 300 /\ head.statusCode < 400
      /\ head.hasLocation /\ head.location # "")

\* What the response callback of call i makes of a response that is not a
\* redirect with a Location: it starts to read it, makes no call, settles
\* nothing and throws nothing.
startsReading(i, head, out) ==
    /\ ~out.thrown
    /\ Len(out.st.calls) = Len(calls)
    /\ out.st.tops = tops
    /\ out.st.calls[i].req = "reading"
    /\ out.st.calls[i].promise = calls[i].promise
    /\ out.st.calls[i].res.body = head.body
    /\ \A j \in DOMAIN calls : j # i => out.st.calls[j] = calls[j]

\* The FetchResult of a response: its body, its content type or "", its
\* status or 0.
fetchResultOf(res) ==
    [how |-> "fulfilled", data |-> res.body,
     contentType |-> IF res.hasContentType THEN res.contentType ELSE "",
     statusCode |-> IF res.hasStatus THEN res.statusCode ELSE 0,
     message |-> ""]

\* C15: a response that is not a redirect with a Location --- a 4xx or 5xx
\* status, a status in [300,400) without Location, any other --- is read to
\* its end without a further call (no hop is used) and without a rejection,
\* and at its end a promise that is still pending is fulfilled with the
\* response's body, content type and status, the status being 0 when the
\* response has none.
C15_NonRedirectResolves ==
    /\ [](pc = "fetch" =>
            \A i \in DOMAIN calls :
                (calls[i].req = "open" /\ ~calls[i].errored) =>
                    \A head \in ResponseHeads(url, calls[i].fetch) :
                        notRedirectWithLocation(head) =>
                            startsReading(i, head, onResponse(State, i, head, aborted)))
    /\ [][pc = "fetch" =>
            \A i \in DOMAIN calls :
                (calls[i].req = "reading" /\ calls'[i].req = "ended") =>
                    /\ Len(calls') = Len(calls)
                    /\ calls[i].promise = "pending" =>
                          calls'[i].promise = "fulfilled"
                    /\ tops.local.how = "pending" =>
                          tops'.local = fetchResultOf(calls[i].res)]_vars

\* A response with a status in [300,400) and no Location, returned by a call
\* that had no redirect to spend.
C15_Witness ==
    /\ pc = "fetch" /\ budget = 0 /\ Len(calls) = 1
    /\ tops.local.how = "fulfilled"
    /\ tops.local.statusCode = 399
    /\ calls[1].req = "ended"

\* The local response is a 2xx that isChallenge does not flag and that is
\* not passed through.
reachesExtractors(r) ==
    /\ ~isChallenge(r.statusCode, r.data)
    /\ r.statusCode >= 200 /\ r.statusCode < 300
    /\ \A t \in {"application/json", "text/plain", "text/markdown"} :
          ~Includes(r.contentType, t)

\* The calls made before the HTML strategies: parseRsc on the body when the
\* content type names the component type too.
beforeHtml(r) ==
    IF Includes(r.contentType, "text/x-component") THEN <<"parseRsc">> ELSE <<>>

\* The local response reaches the HTML strategies.
reachesHtml(r) ==
    /\ reachesExtractors(r)
    /\ Includes(r.contentType, "text/html")
    /\ Includes(r.contentType, "text/x-component") =>
          Len(parseRsc(r.data)) <= MinRscLength

\* The scripts of a document that contain the marker, by position.
markerScripts(dom) ==
    {k \in DOMAIN dom.scripts : Includes(dom.scripts[k], "self.__next_f.push")}

\* The scripts with the marker whose extracted text is long enough.
goodScripts(dom) ==
    {k \in markerScripts(dom) : Len(parseRsc(dom.scripts[k])) > MinRscLength}

\* The first of a non-empty set of positions.
firstOf(positions) ==
    CHOOSE k \in positions : \A j \in positions : k <= j

\* n calls of parseRsc on a script.
scriptCalls(n) == [k \in 1..n |-> "parseRsc(script)"]

\* The step of execute after the local fetch is the one the scan of the
\* scripts gives, marked being the scripts with the marker, good those of
\* them whose text is long enough, and ops the calls made before the scan.
scanStep(dom, ops, marked, good) ==
    IF good # {}
    THEN /\ pc' = "done"
         /\ calls' = calls
         /\ trace' = ops \o scriptCalls(Cardinality({k \in marked : k <= firstOf(good)}))
         /\ result' = [returned |-> TRUE, isError |-> FALSE,
                       text |-> parseRsc(dom.scripts[firstOf(good)])]
    ELSE /\ pc' = "proxy"
         /\ result' = NoResult
         /\ trace' = (ops \o scriptCalls(Cardinality(marked))) \o <<"fetch(proxy)">>
         /\ Len(calls') = Len(calls) + 1
         /\ calls'[Len(calls')].fetch = "proxy"

\* The step of execute after the local fetch is the one the HTML strategies
\* give for the document dom, pre being the calls made before them.
htmlStep(dom, pre) ==
    IF dom.throws \in {"JSDOM", "Readability"}
       \/ (dom.throws = "turndown" /\ dom.article.contentLength > MinArticleLength)
    THEN pc' = "done" /\ result'.isError /\ calls' = calls
    ELSE IF dom.article.found /\ dom.article.contentLength > MinArticleLength
    THEN /\ pc' = "done"
         /\ result' = [returned |-> TRUE, isError |-> FALSE,
                       text |-> "# " \o dom.article.title \o "\n\n"
                                \o dom.article.markdown]
         /\ trace' = (trace \o pre) \o <<"JSDOM", "Readability", "turndown">>
         /\ calls' = calls
    ELSE /\ Len(trace') >= Len(trace) + Len(pre) + 2
         /\ SubSeq(trace', 1, Len(trace) + Len(pre) + 2)
                = (trace \o pre) \o <<"JSDOM", "Readability">>
         /\ \E good \in {goodScripts(dom)} :
               scanStep(dom, (trace \o pre) \o <<"JSDOM", "Readability">>,
                        markerScripts(dom), good)

\* C16: for a local 2xx response that is not flagged and whose content type
\* names HTML, Readability is asked first, and a qualifying article (content
\* longer than 100 characters) is returned as Markdown with no script
\* scanned; only otherwise are the scripts scanned in document order,
\* parseRsc run on those that contain the marker and on no other, and the
\* text of the first one longer than 50 characters returned, the scripts
\* after it left alone; when no script qualifies the proxy fetch is issued.
C16_HtmlStrategyOrder ==
    [][(resumesLocal /\ reachesHtml(tops.local)) =>
          \E dom \in DomOutcomes : htmlStep(dom, beforeHtml(tops.local))]_vars

\* The third script with the marker is never parsed: the second one, after
\* a script without the marker and one whose text is too short, was returned.
C16_Witness ==
    /\ pc = "done" /\ branch = "script"
    /\ result = Success(Text51)
    /\ trace = <<"fetch(local)", "JSDOM", "Readability", "parseRsc(script)",
                 "parseRsc(script)">>

\* The step of execute after a local response of the component type,
\* rscText being what parseRsc makes of its body.
componentStep(r, rscText) ==
    IF Len(rscText) > 50
    THEN /\ pc' = "done"
         /\ result' = [returned |-> TRUE, isError |-> FALSE, text |-> rscText]
         /\ trace' = Append(trace, "parseRsc")
         /\ calls' = calls
    ELSE /\ branch' # "rsc"
         /\ Len(trace') >= Len(trace) + 2
         /\ trace'[Len(trace) + 1] = "parseRsc"
         /\ IF Includes(r.contentType, "text/html")
            THEN /\ trace'[Len(trace) + 2] = "JSDOM"
                 /\ pc' = "proxy" => trace'[Len(trace')] = "fetch(proxy)"
            ELSE /\ pc' = "proxy"
                 /\ result' = NoResult
                 /\ trace' = trace \o <<"parseRsc", "fetch(proxy)">>
                 /\ Len(calls') = Len(calls) + 1
                 /\ calls'[Len(calls')].fetch = "proxy"

\* C17: for a local 2xx response that is not flagged and whose content type
\* names the component type, the text of parseRsc is returned exactly when
\* it is longer than 50 characters; a text of 50 characters or fewer, the
\* empty text included, is not returned: the HTML strategies follow when
\* the content type names HTML too, and the proxy fetch is issued at once
\* when it does not.
C17_ComponentThreshold ==
    [][(/\ resumesLocal
        /\ reachesExtractors(tops.local)
        /\ Includes(tops.local.contentType, "text/x-component")) =>
          \E rscText \in {parseRsc(tops.local.data)} :
              componentStep(tops.local, rscText)]_vars

\* A body whose text has exactly 50 characters was not returned: the HTML
\* strategies ran after parseRsc.
C17_Witness ==
    /\ pc = "done" /\ branch = "article"
    /\ tops.local.data = "1:\"" \o Text50 \o "\""
    /\ tops.local.contentType = "text/html, text/x-component"
    /\ trace = <<"fetch(local)", "parseRsc", "JSDOM", "Readability", "turndown">>

(***************************************************************************)
(* fetch_url: the fetches of an invocation                                 *)
(***************************************************************************)

\* The calls of fetchContent that execute itself made for a fetch.
startsOf(f) == {i \in DOMAIN calls : calls[i].fetch = f /\ calls[i].parent = 0}

\* The calls of a fetch that issued a request to the transport.
requestsOf(f) == {i \in DOMAIN calls : calls[i].fetch = f /\ calls[i].req # "none"}

\* C18: execute starts the fetcher at most once for the target and at most
\* once for the proxy, each time with a budget of 5 redirects whatever the
\* other fetch used, and the proxy fetch only when the local fetch has been
\* fulfilled; a call is followed by at most one hop, so a fetch issues at
\* most 6 requests and an invocation at most 12; the proxy fetch observes
\* the same token: started with the token cancelled, it waits for no
\* response.
C18_BoundedFetches ==
    /\ [](/\ \A f \in {"local", "proxy"} :
                /\ Cardinality(startsOf(f)) <= 1
                /\ \A i \in startsOf(f) : calls[i].maxRedirects = 5
                /\ Cardinality(requestsOf(f)) <= 6
          /\ Cardinality(requestsOf("local") \cup requestsOf("proxy")) <= 12
          /\ \A i \in DOMAIN calls :
                Cardinality({j \in DOMAIN calls : calls[j].parent = i}) <= 1
          /\ \A i \in startsOf("proxy") :
                /\ tops.local.how = "fulfilled"
                /\ pc \in {"proxy", "done"}
                /\ \A j \in DOMAIN calls : calls[j].fetch = "local" => j < i)
    /\ [][(startsOf("proxy") = {} /\ startsOf("proxy")' # {} /\ aborted) =>
            /\ tops'.proxy.how = "rejected"
            /\ calls'[Len(calls')].req \in {"none", "destroyed"}]_vars

\* Twelve requests: a local fetch that followed five redirects to a refusal,
\* and a proxy fetch that was refused its sixth redirect.
C18_Witness ==
    /\ Cardinality(requestsOf("local")) = 6
    /\ Cardinality(requestsOf("proxy")) = 6
    /\ tops.proxy = Rejected("Too many redirects")
    /\ Len(calls) = 13

(***************************************************************************)
(* fetch_url: cancellation and settlement                                  *)
(***************************************************************************)

\* The calls of fetchContent that the step makes.
newCalls == {k \in DOMAIN calls' : k > Len(calls)}

\* C19: a call of fetchContent that begins when the token is cancelled ---
\* the first call, a redirect hop, the proxy fetch --- is rejected with the
\* error of the abort, 'Request aborted', which the fetch it belongs to
\* hands to execute unless that fetch has failed before; and an invocation
\* in which a call began so ends in an error result.
C19_CancelledCallsAbort ==
    /\ [][aborted =>
            \A k \in newCalls :
                /\ calls'[k].promise = "rejected"
                /\ tops[calls'[k].fetch].how = "pending" =>
                      tops'[calls'[k].fetch] = Rejected("Request aborted")]_vars
    /\ []((pc = "done" /\ \E i \in DOMAIN calls : calls[i].req = "destroyed") =>
            result.isError)

\* Call i, or a hop made for it, has a request that still owes an event.
stillRunning(i) ==
    \E j \in DOMAIN calls :
        /\ j >= i /\ calls[j].fetch = calls[i].fetch
        /\ calls[j].req \in {"open", "reading"}
        /\ ~calls[j].errored

\* A settled promise keeps its settlement, and a returned result stays.
settledIsFinal ==
    /\ \A i \in DOMAIN calls :
          calls[i].promise # "pending" => calls'[i].promise = calls[i].promise
    /\ \A f \in {"local", "proxy"} :
          tops[f].how # "pending" => tops'[f] \in {tops[f], consumed}
    /\ result.returned => (result' = result /\ pc' = pc)

\* C20: every call of fetchContent settles exactly once: whichever of the
\* abort rejection, an 'error' event, a redirect and an 'end' event comes
\* first settles it, nothing that comes later changes the settlement, and
\* no call is left pending with nothing more to come; so an invocation
\* returns one result, and only one.
C20_SettlesExactlyOnce ==
    /\ [][settledIsFinal]_vars
    /\ [](\A i \in DOMAIN calls : calls[i].promise = "pending" => stillRunning(i))
    /\ [](result.returned <=> pc = "done")

====
